---- MODULE Spec2Model ----
(***************************************************************************)
(* Model of git-semver: main() reads the flags, asks the repository for    *)
(* its RepoHead, builds a Version from it (NewFromHead), applies the       *)
(* -set-meta / -prefix overrides and prints Version.Format(selectFormat()).*)
(* Strings are sequences of one-character strings.                         *)
(***************************************************************************)
EXTENDS Integers, Sequences, FiniteSets, TLC

VARIABLES pc, flags, repo, head, v, pattern, out, err

vars == <<pc, flags, repo, head, v, pattern, out, err>>

(***************************************************************************)
(* Bounds of the model.                                                    *)
(***************************************************************************)
MaxCommits == 2

(***************************************************************************)
(* Character classes and the Go library functions the program calls.       *)
(***************************************************************************)
Lower == {"a", "b", "c", "d", "e", "f", "g", "h", "i", "j", "k", "l", "m",
          "n", "o", "p", "q", "r", "s", "t", "u", "v", "w", "x", "y", "z"}

DigitChars == <<"0", "1", "2", "3", "4", "5", "6", "7", "8", "9">>

Digits == {DigitChars[i] : i \in 1..10}

DigitVal(c) == (CHOOSE i \in 1..10 : DigitChars[i] = c) - 1

\* index of the first c in s, 0 when s has none
IndexOf(s, c) ==
    IF \E i \in 1..Len(s) : s[i] = c
    THEN CHOOSE i \in 1..Len(s) : s[i] = c /\ \A j \in 1..(i - 1) : s[j] # c
    ELSE 0

\* strings.Contains(s, c) for a one-character c
Contains(s, c) == IndexOf(s, c) # 0

\* strings.HasPrefix
HasPrefix(s, p) == Len(s) >= Len(p) /\ SubSeq(s, 1, Len(p)) = p

\* strings.TrimPrefix
TrimPrefix(s, p) == IF HasPrefix(s, p) THEN SubSeq(s, Len(p) + 1, Len(s)) ELSE s

\* strings.Split(s, c) for a one-character separator: every piece between
\* two separators, n+1 pieces for n separators
RECURSIVE Split(_, _)
Split(s, c) ==
    IF ~Contains(s, c) THEN <<s>>
    ELSE LET i == IndexOf(s, c)
         IN  <<SubSeq(s, 1, i - 1)>> \o Split(SubSeq(s, i + 1, Len(s)), c)

\* value of a non-empty run of decimal digits
RECURSIVE DigitsValue(_)
DigitsValue(ds) ==
    IF Len(ds) = 0 THEN 0
    ELSE 10 * DigitsValue(SubSeq(ds, 1, Len(ds) - 1)) + DigitVal(ds[Len(ds)])

AllDigits(s) == Len(s) > 0 /\ \A i \in 1..Len(s) : s[i] \in Digits

\* strconv.Atoi / strconv.ParseInt(s, 10, 64): an optional sign, then one or
\* more decimal digits; anything else is a syntax error
Atoi(s) ==
    LET signed == Len(s) > 0 /\ s[1] \in {"+", "-"}
        body   == IF signed THEN Tail(s) ELSE s
    IN  IF ~AllDigits(body) THEN [err |-> TRUE, val |-> 0]
        ELSE [err |-> FALSE,
              val |-> IF signed /\ s[1] = "-" THEN 0 - DigitsValue(body)
                      ELSE DigitsValue(body)]

\* strconv.FormatInt(i, 10) and the %d verb
RECURSIVE FormatNat(_)
FormatNat(n) ==
    IF n < 10 THEN <<DigitChars[n + 1]>>
    ELSE FormatNat(n \div 10) \o <<DigitChars[(n % 10) + 1]>>

FormatInt(i) == IF i < 0 THEN <<"-">> \o FormatNat(0 - i) ELSE FormatNat(i)

(***************************************************************************)
(* version package: constants                                              *)
(***************************************************************************)
DefaultPrefix == <<"v">>

FullFormat == <<"x", ".", "y", ".", "z", "-", "p", "+", "m">>
NoMetaFormat == <<"x", ".", "y", ".", "z", "-", "p">>
NoPreFormat == <<"x", ".", "y", ".", "z">>
NoPatchFormat == <<"x", ".", "y">>
NoMinorFormat == <<"x">>
ReleaseCandidateFormat == <<"x", ".", "y", ".", "z", "-", "r">>

\* number of hash characters NewFromHead keeps as metadata
HashLen == 8

(***************************************************************************)
(* buffer                                                                  *)
(***************************************************************************)
\* faulty variant: the separator is written even before an empty string
AppendStringAlwaysSeparated(b, s, sep) ==
    (IF Len(b) > 0 THEN b \o <<sep>> ELSE b) \o s

AppendString(b, s, sep) ==
    (IF Len(s) > 0 /\ Len(b) > 0 THEN b \o <<sep>> ELSE b) \o s

AppendInt(b, i, sep) == AppendString(b, FormatInt(i), sep)

(***************************************************************************)
(* Version                                                                 *)
(***************************************************************************)
ZeroVersion ==
    [Prefix |-> <<>>, Major |-> 0, Minor |-> 0, Patch |-> 0,
     preRelease |-> <<>>, Commits |-> 0, Meta |-> <<>>, releaseCandidate |-> 0]

\* faulty variant: the dev suffix is appended even on the tagged commit
PreReleaseAlwaysDev(ver) ==
    IF ver.preRelease = <<>>
    THEN <<"d", "e", "v", ".">> \o FormatInt(ver.Commits)
    ELSE ver.preRelease \o <<".", "d", "e", "v", ".">> \o FormatInt(ver.Commits)

\* Version.PreRelease
PreRelease(ver) ==
    IF ver.Commits = 0 THEN ver.preRelease
    ELSE IF ver.preRelease = <<>>
         THEN <<"d", "e", "v", ".">> \o FormatInt(ver.Commits)
         ELSE ver.preRelease \o <<".", "d", "e", "v", ".">> \o FormatInt(ver.Commits)

\* the regular expression ^([a-z]+)\.([0-9]+)$ : the submatches, or ok = FALSE
MatchReleaseCandidate(s) ==
    LET i == IndexOf(s, ".")
        word == SubSeq(s, 1, i - 1)
        num  == SubSeq(s, i + 1, Len(s))
    IN  IF /\ i > 1
           /\ \A j \in 1..Len(word) : word[j] \in Lower
           /\ AllDigits(num)
        THEN [ok |-> TRUE, st |-> <<s, word, num>>]
        ELSE [ok |-> FALSE, st |-> <<>>]

\* faulty variant: the candidate number grows with every commit
NextCandidateAddingCommits(ver, i) == i + ver.Commits

\* the increment ReleaseCandidate applies to the parsed number
NextCandidate(ver, i) == IF ver.Commits > 0 THEN i + 1 ELSE i

\* Version.ReleaseCandidate
ReleaseCandidate(ver) ==
    IF ver.preRelease = <<>> THEN [err |-> "", val |-> <<"r", "c", ".", "1">>]
    ELSE LET m == MatchReleaseCandidate(ver.preRelease)
         IN  IF ~m.ok \/ Len(m.st) # 3
             THEN [err |-> "rc format", val |-> <<>>]
             ELSE LET n == Atoi(m.st[3])
                  IN  IF n.err THEN [err |-> "rc number", val |-> <<>>]
                      ELSE [err |-> "",
                            val |-> m.st[2] \o <<".">>
                                    \o FormatInt(NextCandidate(ver, n.val))]

\* the part of format, starting at position p, that is the literal lit
HasAt(s, p, lit) == p + Len(lit) - 1 <= Len(s) /\ SubSeq(s, p, p + Len(lit) - 1) = lit

\* re.SubexpNames() of Format's expression
SubexpNames == <<"", "major", "minor", "patch", "pre", "release_candidate", "meta">>

\* re.FindStringSubmatch(format) for
\* (x)(\.y)?(\.z)?(-p)?(-r)?(\+m)? : the leftmost match, found anywhere in
\* format; a group that took no part in the match is the empty string
FindStringSubmatch(format) ==
    LET i == IndexOf(format, "x")
        g(p, lit) == IF HasAt(format, p, lit) THEN lit ELSE <<>>
        minor == g(i + 1, <<".", "y">>)
        p2    == i + 1 + Len(minor)
        patch == g(p2, <<".", "z">>)
        p3    == p2 + Len(patch)
        pre   == g(p3, <<"-", "p">>)
        p4    == p3 + Len(pre)
        rc    == g(p4, <<"-", "r">>)
        p5    == p4 + Len(rc)
        meta  == g(p5, <<"+", "m">>)
        p6    == p5 + Len(meta)
    IN  IF i = 0 THEN [ok |-> FALSE, matches |-> <<>>]
        ELSE [ok |-> TRUE,
              matches |-> <<SubSeq(format, i, p6 - 1), <<"x">>,
                            minor, patch, pre, rc, meta>>]

\* faulty variant: the patch is bumped even when the tag is a pre-release
PatchToRenderIgnoringPreRelease(ver) ==
    IF ver.Commits > 0 THEN ver.Patch + 1 ELSE ver.Patch

\* the patch number Format renders
PatchToRender(ver) ==
    IF ver.Commits > 0 /\ ver.preRelease = <<>> THEN ver.Patch + 1 ELSE ver.Patch

\* the loop of Format over the submatches, from index i on
RECURSIVE FormatLoop(_, _, _, _)
FormatLoop(ver, matches, i, buf) ==
    IF i > Len(matches) THEN [err |-> "", val |-> buf]
    ELSE IF Len(matches[i]) = 0 THEN FormatLoop(ver, matches, i + 1, buf)
    ELSE LET name == SubexpNames[i]
         IN  IF name = "major"
             THEN FormatLoop(ver, matches, i + 1, AppendInt(buf, ver.Major, "."))
             ELSE IF name = "minor"
             THEN FormatLoop(ver, matches, i + 1, AppendInt(buf, ver.Minor, "."))
             ELSE IF name = "patch"
             THEN FormatLoop(ver, matches, i + 1,
                             AppendInt(buf, PatchToRender(ver), "."))
             ELSE IF name = "pre"
             THEN FormatLoop(ver, matches, i + 1,
                             AppendString(buf, PreRelease(ver), "-"))
             ELSE IF name = "release_candidate"
             THEN LET rc == ReleaseCandidate(ver)
                  IN  IF rc.err # "" THEN [err |-> rc.err, val |-> <<>>]
                      ELSE FormatLoop(ver, matches, i + 1,
                                      AppendString(buf, rc.val, "-"))
             ELSE IF name = "meta"
             THEN FormatLoop(ver, matches, i + 1, AppendString(buf, ver.Meta, "+"))
             ELSE FormatLoop(ver, matches, i + 1, buf)

\* Version.Format
Format(ver, format) ==
    LET found == FindStringSubmatch(format)
    IN  IF ~found.ok THEN [err |-> "invalid format", val |-> <<>>]
        ELSE LET r == FormatLoop(ver, found.matches, 1, <<>>)
             IN  IF r.err # "" THEN r
                 ELSE [err |-> "", val |-> ver.Prefix \o r.val]

(***************************************************************************)
(* NewFromHead                                                             *)
(***************************************************************************)
\* the metadata step: the tag's part before '+' and Meta; taking the first
\* HashLen characters of a shorter Hash panics
SplitMeta(version, h) ==
    IF Contains(version, "+")
    THEN LET parts == Split(version, "+")
         IN  [panic |-> FALSE, version |-> parts[1], Meta |-> parts[2]]
    ELSE IF h.CommitsSinceTag > 0
    THEN IF Len(h.Hash) < HashLen
         THEN [panic |-> TRUE, version |-> version, Meta |-> <<>>]
         ELSE [panic |-> FALSE, version |-> version,
               Meta |-> SubSeq(h.Hash, 1, HashLen)]
    ELSE [panic |-> FALSE, version |-> version, Meta |-> <<>>]

\* the pre-release step: the part before '-' and preRelease
SplitPreRelease(version) ==
    IF Contains(version, "-")
    THEN LET parts == Split(version, "-")
         IN  [version |-> parts[1], preRelease |-> parts[2]]
    ELSE [version |-> version, preRelease |-> <<>>]

\* the numeric core: empty gives 0.0.0, otherwise three integers
ParseCore(ver, version) ==
    IF version = <<>>
    THEN [err |-> "", v |-> [ver EXCEPT !.Major = 0, !.Minor = 0, !.Patch = 0]]
    ELSE LET parts == Split(version, ".")
         IN  IF Len(parts) # 3 THEN [err |-> "3 components", v |-> ver]
             ELSE LET major == Atoi(parts[1])
                      minor == Atoi(parts[2])
                      patch == Atoi(parts[3])
                      v1 == [ver EXCEPT !.Major = major.val]
                      v2 == [v1 EXCEPT !.Minor = minor.val]
                      v3 == [v2 EXCEPT !.Patch = patch.val]
                  IN  IF major.err THEN [err |-> "major", v |-> v1]
                      ELSE IF minor.err THEN [err |-> "minor", v |-> v2]
                      ELSE IF patch.err THEN [err |-> "patch", v |-> v3]
                      ELSE [err |-> "", v |-> v3]

NewFromHead(h) ==
    LET v0 == [ZeroVersion EXCEPT
                  !.Commits = h.CommitsSinceTag,
                  !.Prefix = IF HasPrefix(h.LastTag, DefaultPrefix)
                             THEN DefaultPrefix ELSE <<>>]
        version == TrimPrefix(h.LastTag, v0.Prefix)
        sm == SplitMeta(version, h)
        v1 == [v0 EXCEPT !.Meta = sm.Meta]
        sp == SplitPreRelease(sm.version)
        v2 == [v1 EXCEPT !.preRelease = sp.preRelease]
        pc0 == ParseCore(v2, sp.version)
    IN  IF sm.panic THEN [panic |-> TRUE, err |-> "", v |-> v0]
        ELSE [panic |-> FALSE, err |-> pc0.err, v |-> pc0.v]

(***************************************************************************)
(* main package                                                            *)
(***************************************************************************)
\* faulty variant: -no-patch is looked at before -no-minor
selectFormatPatchFirst(f) ==
    IF f.format # <<>> THEN f.format
    ELSE IF f.excludePatch THEN NoPatchFormat
    ELSE IF f.excludeMinor THEN NoMinorFormat
    ELSE IF f.excludePreRelease THEN NoPreFormat
    ELSE IF f.excludeHash \/ f.excludeMeta THEN NoMetaFormat
    ELSE IF f.releaseCandidate THEN ReleaseCandidateFormat
    ELSE FullFormat

selectFormat(f) ==
    IF f.format # <<>> THEN f.format
    ELSE IF f.excludeMinor THEN NoMinorFormat
    ELSE IF f.excludePatch THEN NoPatchFormat
    ELSE IF f.excludePreRelease THEN NoPreFormat
    ELSE IF f.excludeHash \/ f.excludeMeta THEN NoMetaFormat
    ELSE IF f.releaseCandidate THEN ReleaseCandidateFormat
    ELSE FullFormat

(***************************************************************************)
(* Inputs: the tags, hashes and flags the runs are started with            *)
(***************************************************************************)
TagPrefixes == {<<>>, <<"v">>}

TagCores ==
    { <<>>,
      <<"1", ".", "2", ".", "3">>,
      <<"1", ".", "0", ".", "9">>,
      <<"1", ".", "2">>,
      <<"1", ".", "2", ".", "3", ".", "4">>,
      <<"1", ".", "a", ".", "3">>,
      <<"1", ".", ".", "3">>,
      <<"0", "1", ".", "2", ".", "3">> }

TagPreReleases ==
    { <<>>,
      <<"-", "r", "c", ".", "1">>,
      <<"-", "r", "c", ".", "0", "9">>,
      <<"-", "b", "e", "t", "a">>,
      <<"-", "r", "c", "-", "1">>,
      <<"-", "R", "C", ".", "1">>,
      <<"-", "r", "c", ".", "1", ".", "2">> }

TagMetas ==
    { <<>>,
      <<"+", "b", "7">>,
      <<"+", "a", "+", "b">>,
      <<"+", "a", "-", "b">> }

Tags == { p \o c \o q \o m : p \in TagPrefixes, c \in TagCores,
                             q \in TagPreReleases, m \in TagMetas }

Hashes ==
    { <<"a", "b", "c", "d", "e", "f", "1", "2", "3", "4", "5", "6", "7", "8", "9", "0">>,
      <<"a", "b", "c", "d", "e", "f", "1", "2">>,
      <<"a", "b", "c">> }

Heads == [LastTag : Tags, Hash : Hashes, CommitsSinceTag : 0..MaxCommits]

Patterns ==
    { <<>>, NoMetaFormat, NoPreFormat, NoPatchFormat, NoMinorFormat,
      ReleaseCandidateFormat,
      <<"x", ".", "z">>,
      <<"x", "-", "r", "+", "m">>,
      <<"x", ".", "y", ".", "z", "-", "p", "-", "r", "+", "m">>,
      <<"z", ".", "x">>,
      <<"y", ".", "z">>,
      <<"a", "x", ".", "y", ".", "z", "!">>,
      <<"x", ".", "y", ".", "z", "+", "m", "-", "p">> }

NoFlags ==
    [prefix |-> <<>>, format |-> <<>>, excludeHash |-> FALSE,
     excludeMeta |-> FALSE, setMeta |-> <<>>, excludePreRelease |-> FALSE,
     excludePatch |-> FALSE, excludeMinor |-> FALSE, releaseCandidate |-> FALSE]

\* every head, with every -format pattern and no other flag
LibraryInputs ==
    { [flags |-> [NoFlags EXCEPT !.format = f], repo |-> h] :
        f \in Patterns, h \in Heads }

CliHeads ==
    { h \in Heads :
        /\ h.LastTag \in { <<"v", "1", ".", "2", ".", "3">>,
                           <<"1", ".", "0", ".", "9", "-", "r", "c", ".", "1">>,
                           <<"1", ".", "2", ".", "3", "+", "b", "7">> }
        /\ Len(h.Hash) = 16 }

CliFlags ==
    [prefix : {<<>>, <<"r">>},
     format : {<<>>, NoPatchFormat},
     excludeHash : BOOLEAN, excludeMeta : BOOLEAN,
     setMeta : {<<>>, <<"m", "1">>},
     excludePreRelease : BOOLEAN, excludePatch : BOOLEAN,
     excludeMinor : BOOLEAN, releaseCandidate : BOOLEAN]

\* a few heads, with every combination of flags
CliInputs == { [flags |-> f, repo |-> h] : f \in CliFlags, h \in CliHeads }

Inputs == LibraryInputs \cup CliInputs

(***************************************************************************)
(* The run of main                                                         *)
(***************************************************************************)
Init ==
    /\ \E in \in Inputs : flags = in.flags /\ repo = in.repo
    /\ pc = "start"
    /\ head = [LastTag |-> <<>>, Hash |-> <<>>, CommitsSinceTag |-> 0]
    /\ v = ZeroVersion
    /\ pattern = <<>>
    /\ out = <<>>
    /\ err = ""

\* version.NewFromRepo(repoPath): GitDescribe hands over the repository's
\* RepoHead and NewFromHead builds the Version from it
NewFromRepo ==
    /\ pc = "start"
    /\ head' = repo
    /\ LET r == NewFromHead(repo)
       IN  IF r.panic
           THEN /\ pc' = "panic"
                /\ err' = "slice bounds out of range"
                /\ v' = v
           ELSE IF r.err # ""
           THEN /\ pc' = "exit1"
                /\ err' = r.err
                /\ v' = r.v
           ELSE /\ pc' = "override"
                /\ err' = ""
                /\ v' = r.v
    /\ UNCHANGED <<flags, repo, pattern, out>>

\* main: the -set-meta and -prefix overrides
Override ==
    /\ pc = "override"
    /\ v' = [v EXCEPT
               !.Meta = IF flags.setMeta # <<>> THEN flags.setMeta ELSE @,
               !.Prefix = IF flags.prefix # <<>> THEN flags.prefix ELSE @]
    /\ pc' = "format"
    /\ UNCHANGED <<flags, repo, head, pattern, out, err>>

\* main: v.Format(selectFormat()) and the print or the exit
PrintVersion ==
    /\ pc = "format"
    /\ pattern' = selectFormat(flags)
    /\ LET r == Format(v, pattern')
       IN  IF r.err # ""
           THEN /\ pc' = "exit1"
                /\ err' = r.err
                /\ out' = out
           ELSE /\ pc' = "done"
                /\ err' = ""
                /\ out' = r.val
    /\ UNCHANGED <<flags, repo, head, v>>

Next == NewFromRepo \/ Override \/ PrintVersion

Spec == Init /\ [][Next]_vars

TypeOK ==
    /\ pc \in {"start", "override", "format", "done", "exit1", "panic"}
    /\ v.Commits \in 0..MaxCommits

(***************************************************************************)
(* Vocabulary of the properties, defined on the text of the tag, the       *)
(* pattern and the output, independently of the operators above.           *)
(***************************************************************************)
BeforeFirst(s, c) ==
    IF \E i \in 1..Len(s) : s[i] = c
    THEN SubSeq(s, 1, (CHOOSE i \in 1..Len(s) :
                          s[i] = c /\ \A j \in 1..(i - 1) : s[j] # c) - 1)
    ELSE s

AfterFirst(s, c) ==
    SubSeq(s, (CHOOSE i \in 1..Len(s) :
                  s[i] = c /\ \A j \in 1..(i - 1) : s[j] # c) + 1, Len(s))

HasChar(s, c) == \E i \in 1..Len(s) : s[i] = c

\* the tag without its "v" prefix
TagBody(tag) == IF Len(tag) > 0 /\ tag[1] = "v" THEN Tail(tag) ELSE tag

\* the tag without prefix and metadata
WorkingBody(tag) == BeforeFirst(TagBody(tag), "+")

\* the tag without prefix, metadata and pre-release
NumericCore(tag) == BeforeFirst(WorkingBody(tag), "-")

IsNumber(s) == Len(s) > 0 /\ \A i \in 1..Len(s) : s[i] \in Digits

\* c is exactly three dot-separated non-negative integers
ThreeIntegers(c) ==
    \E i, j \in 1..Len(c) :
        /\ i < j
        /\ c[i] = "." /\ c[j] = "."
        /\ IsNumber(SubSeq(c, 1, i - 1))
        /\ IsNumber(SubSeq(c, i + 1, j - 1))
        /\ IsNumber(SubSeq(c, j + 1, Len(c)))

\* the patterns of the shape x[.y][.z][-p][-r][+m]
WholePatterns ==
    { <<"x">> \o a \o b \o c \o d \o e :
        a \in {<<>>, <<".", "y">>}, b \in {<<>>, <<".", "z">>},
        c \in {<<>>, <<"-", "p">>}, d \in {<<>>, <<"-", "r">>},
        e \in {<<>>, <<"+", "m">>} }

HasToken(pat, tok) == pat \in WholePatterns /\ HasChar(pat, tok)

\* lit occurs in s
Occurs(s, lit) ==
    \E i \in 1..Len(s) :
        i + Len(lit) - 1 <= Len(s) /\ SubSeq(s, i, i + Len(lit) - 1) = lit

BuildErrors == {"3 components", "major", "minor", "patch"}

FormatErrors == {"invalid format", "rc format", "rc number"}

\* NewFromHead has returned an error
BuildFailed == pc = "exit1" /\ err \in BuildErrors

\* NewFromHead has returned a Version
Built == pc \in {"override", "format", "done"} \/ (pc = "exit1" /\ err \in FormatErrors)

\* Format has returned
Formatted == pc = "done" \/ (pc = "exit1" /\ err \in FormatErrors)

\* the x[.y][.z] part of the output: what follows Prefix, up to the
\* pre-release or the metadata
RenderedNumbers ==
    BeforeFirst(BeforeFirst(SubSeq(out, Len(v.Prefix) + 1, Len(out)), "+"), "-")

(***************************************************************************)
(* C1: Format returns a format error for every pattern that is not, as a   *)
(* whole string, of the shape x[.y][.z][-p][-r][+m]; a version is printed  *)
(* only for a pattern of that shape.                                       *)
(***************************************************************************)
C1_MalformedPatternIsFormatError ==
    Formatted /\ pattern \notin WholePatterns
        => pc = "exit1" /\ err = "invalid format" /\ out = <<>>

(***************************************************************************)
(* C2: with the z token in the pattern, the patch number in the output is  *)
(* Patch+1 exactly when Commits > 0 and the pre-release is empty, Patch    *)
(* otherwise; the major and minor numbers are rendered unchanged.          *)
(***************************************************************************)
C2_PatchBumpedOnlyForUntaggedRelease ==
    pc = "done" /\ HasToken(pattern, "z")
        => RenderedNumbers =
              FormatInt(v.Major)
              \o (IF HasToken(pattern, "y")
                  THEN <<".">> \o FormatInt(v.Minor) ELSE <<>>)
              \o <<".">>
              \o FormatInt(IF v.Commits > 0 /\ v.preRelease = <<>>
                           THEN v.Patch + 1 ELSE v.Patch)

C2_Witness ==
    /\ pc = "done"
    /\ HasToken(pattern, "z")
    /\ v.Commits > 0
    /\ v.preRelease = <<>>
    /\ v.Patch = 9
    /\ RenderedNumbers = <<"1", ".", "0", ".", "1", "0">>

(***************************************************************************)
(* C3: ReleaseCandidate is "rc.1" for an empty pre-release; for a          *)
(* pre-release <lowercase letters>.<digits> it is <letters>.<n> when       *)
(* Commits = 0 and <letters>.<n+1> when Commits > 0; for any other         *)
(* pre-release it is an error and no string, and Format with an r token    *)
(* returns that error.                                                     *)
(***************************************************************************)
WordDotNumber(p) ==
    \E k \in 1..Len(p) :
        /\ p[k] = "."
        /\ k > 1
        /\ \A j \in 1..(k - 1) : p[j] \in Lower
        /\ IsNumber(SubSeq(p, k + 1, Len(p)))

ExpectedCandidate(p, commits) ==
    IF p = <<>> THEN <<"r", "c", ".", "1">>
    ELSE BeforeFirst(p, ".") \o <<".">>
         \o FormatInt(DigitsValue(AfterFirst(p, "."))
                      + (IF commits > 0 THEN 1 ELSE 0))

C3_ReleaseCandidateNumbering ==
    Built =>
        LET rc == ReleaseCandidate(v)
            valid == v.preRelease = <<>> \/ WordDotNumber(v.preRelease)
        IN  /\ valid => rc.err = ""
                        /\ rc.val = ExpectedCandidate(v.preRelease, v.Commits)
            /\ ~valid => rc.err # "" /\ rc.val = <<>>
            /\ Formatted /\ HasToken(pattern, "r") =>
                  IF valid
                  THEN /\ pc = "done"
                       /\ Occurs(out, <<"-">> \o ExpectedCandidate(v.preRelease,
                                                                  v.Commits))
                  ELSE pc = "exit1" /\ err = rc.err /\ out = <<>>

C3_Witness ==
    /\ pc = "done"
    /\ HasToken(pattern, "r")
    /\ v.preRelease = <<"r", "c", ".", "0", "9">>
    /\ v.Commits = MaxCommits
    /\ Occurs(out, <<"-", "r", "c", ".", "1", "0">>)

(***************************************************************************)
(* C4: PreRelease always succeeds: it is the parsed pre-release when       *)
(* Commits = 0, "dev.<Commits>" when Commits > 0 and the pre-release is    *)
(* empty, "<preRelease>.dev.<Commits>" when Commits > 0 and it is not.     *)
(***************************************************************************)
ExpectedPreRelease(p, commits) ==
    CASE commits = 0 -> p
      [] commits > 0 /\ p = <<>> -> <<"d", "e", "v", ".">> \o FormatInt(commits)
      [] commits > 0 /\ p # <<>> ->
             p \o <<".", "d", "e", "v", ".">> \o FormatInt(commits)

C4_PreReleaseSuffix ==
    Built =>
        LET want == ExpectedPreRelease(v.preRelease, v.Commits)
        IN  /\ PreRelease(v) = want
            /\ Formatted /\ HasToken(pattern, "p") /\ ~HasToken(pattern, "r") =>
                  /\ pc = "done"
                  /\ want # <<>> => Occurs(out, <<"-">> \o want)
                  /\ want = <<>> /\ ~HasChar(v.Prefix \o v.Meta, "-")
                        => ~HasChar(out, "-")

C4_Witness ==
    /\ pc = "done"
    /\ pattern = NoMetaFormat
    /\ v.preRelease = <<"b", "e", "t", "a">>
    /\ v.Commits = MaxCommits
    /\ Occurs(out, <<"-", "b", "e", "t", "a", ".", "d", "e", "v", ".">>
                   \o FormatInt(MaxCommits))

(***************************************************************************)
(* C5: for a non-empty LastTag whose numeric core (after the "v" prefix,   *)
(* the metadata and the pre-release are removed) is not exactly three      *)
(* dot-separated non-negative integers, NewFromHead returns an error.      *)
(***************************************************************************)
C5_MalformedCoreIsError ==
    /\ pc \notin {"start", "panic"}
    /\ head.LastTag # <<>>
    /\ ~ThreeIntegers(NumericCore(head.LastTag))
    => BuildFailed

(***************************************************************************)
(* C6: after NewFromHead succeeds, Meta is the whole text right of the     *)
(* first '+' of the prefix-stripped tag when there is a '+', otherwise the *)
(* first 8 characters of Hash when CommitsSinceTag > 0, otherwise empty.   *)
(***************************************************************************)
C6_MetaIsRestAfterFirstPlus ==
    pc = "override" =>
        v.Meta = IF HasChar(TagBody(head.LastTag), "+")
                 THEN AfterFirst(TagBody(head.LastTag), "+")
                 ELSE IF head.CommitsSinceTag > 0
                 THEN SubSeq(head.Hash, 1, 8)
                 ELSE <<>>

(***************************************************************************)
(* C7: NewFromHead either returns a Version or the invalid-tag error; with *)
(* CommitsSinceTag > 0, no '+' in the tag and a Hash shorter than 8        *)
(* characters it still returns a Version when the core is well-formed or   *)
(* empty.                                                                  *)
(***************************************************************************)
C7_ShortHashDoesNotCrash ==
    /\ pc # "start"
    /\ head.CommitsSinceTag > 0
    /\ ~HasChar(head.LastTag, "+")
    /\ Len(head.Hash) < 8
    /\ \/ NumericCore(head.LastTag) = <<>>
       \/ ThreeIntegers(NumericCore(head.LastTag))
    => Built

(***************************************************************************)
(* C8: for a LastTag [v]X.Y.Z without pre-release and metadata and         *)
(* CommitsSinceTag = 0, the built Version formatted with x.y.z-p+m or      *)
(* x.y.z-p is Prefix followed by X.Y.Z, without any '-' or '+'.            *)
(***************************************************************************)
\* s without the leading zeros of a number
Canonical(s) ==
    LET nz == {i \in 1..Len(s) : s[i] # "0"}
    IN  IF nz = {} THEN <<"0">>
        ELSE SubSeq(s, CHOOSE i \in nz : \A j \in nz : i <= j, Len(s))

\* X.Y.Z of a plain tag body, each number in canonical decimal
CanonicalCore(c) ==
    LET i == CHOOSE i \in 1..Len(c) : c[i] = "." /\ \A k \in 1..(i - 1) : c[k] # "."
        j == CHOOSE j \in (i + 1)..Len(c) :
                 c[j] = "." /\ \A k \in (i + 1)..(j - 1) : c[k] # "."
    IN  Canonical(SubSeq(c, 1, i - 1)) \o <<".">>
        \o Canonical(SubSeq(c, i + 1, j - 1)) \o <<".">>
        \o Canonical(SubSeq(c, j + 1, Len(c)))

C8_PlainTagHasNoDanglingSeparator ==
    /\ pc = "done"
    /\ pattern \in { <<"x", ".", "y", ".", "z", "-", "p", "+", "m">>,
                     <<"x", ".", "y", ".", "z", "-", "p">> }
    /\ flags.setMeta = <<>>
    /\ head.CommitsSinceTag = 0
    /\ ThreeIntegers(TagBody(head.LastTag))
    => /\ out = v.Prefix \o CanonicalCore(TagBody(head.LastTag))
       /\ ~HasChar(SubSeq(out, Len(v.Prefix) + 1, Len(out)), "-")
       /\ ~HasChar(SubSeq(out, Len(v.Prefix) + 1, Len(out)), "+")
       /\ (flags.prefix = <<>>
           /\ CanonicalCore(TagBody(head.LastTag)) = TagBody(head.LastTag))
          => out = head.LastTag

C8_Witness ==
    /\ pc = "done"
    /\ pattern = <<"x", ".", "y", ".", "z", "-", "p", "+", "m">>
    /\ head.LastTag = <<"v", "1", ".", "2", ".", "3">>
    /\ head.CommitsSinceTag = 0
    /\ flags.setMeta = <<>>
    /\ flags.prefix = <<>>
    /\ out = <<"v", "1", ".", "2", ".", "3">>

(***************************************************************************)
(* C9: the pattern main formats with is chosen by precedence: a non-empty  *)
(* -format, else -no-minor "x", else -no-patch "x.y", else -no-pre         *)
(* "x.y.z", else -no-hash or -no-meta "x.y.z-p", else -release-candidate   *)
(* "x.y.z-r", else "x.y.z-p+m".                                            *)
(***************************************************************************)
Precedence ==
    << [on |-> flags.format # <<>>, fmt |-> flags.format],
       [on |-> flags.excludeMinor, fmt |-> <<"x">>],
       [on |-> flags.excludePatch, fmt |-> <<"x", ".", "y">>],
       [on |-> flags.excludePreRelease, fmt |-> <<"x", ".", "y", ".", "z">>],
       [on |-> flags.excludeHash \/ flags.excludeMeta,
        fmt |-> <<"x", ".", "y", ".", "z", "-", "p">>],
       [on |-> flags.releaseCandidate,
        fmt |-> <<"x", ".", "y", ".", "z", "-", "r">>],
       [on |-> TRUE, fmt |-> <<"x", ".", "y", ".", "z", "-", "p", "+", "m">>] >>

C9_FormatPrecedence ==
    Formatted =>
        \E k \in 1..Len(Precedence) :
            /\ Precedence[k].on
            /\ \A j \in 1..(k - 1) : ~Precedence[j].on
            /\ pattern = Precedence[k].fmt

C9_Witness ==
    /\ pc = "done"
    /\ flags.format = <<>>
    /\ ~flags.excludeMinor
    /\ flags.excludePatch
    /\ flags.excludePreRelease
    /\ flags.excludeMeta
    /\ flags.releaseCandidate
    /\ pattern = <<"x", ".", "y">>

(***************************************************************************)
(* C10: when the working body of the tag contains '-', the pre-release is  *)
(* the whole text right of the first '-', further '-' included.            *)
(***************************************************************************)
C10_PreReleaseIsRestAfterFirstDash ==
    pc = "override" /\ HasChar(WorkingBody(head.LastTag), "-")
        => v.preRelease = AfterFirst(WorkingBody(head.LastTag), "-")

====
